---- MODULE Spec2Model ----
(***************************************************************************)
(* Model of the metrics pipeline of performance-graphs (Cockpit metrics    *)
(* page): sample decoder, reducer, dynamic range estimator, window         *)
(* aggregator (MetricsHistory.load_data) and the spike-event detector      *)
(* (MetricsHour).  The history pipeline follows the newest revision,       *)
(* src/unnamed/part_001; definitions that model an older revision say so.  *)
(*                                                                         *)
(* JavaScript values.  Numbers are the naturals (raw readings are          *)
(* non-negative); the other scalar values are coded as negative integers   *)
(* so that `typeof x === 'number'` is x >= 0.  A tick entry (and a decoder *)
(* state entry) is a record [arr, v, inst]: a scalar v when arr is FALSE,  *)
(* a JS array inst (holes = UNDEFINED) when arr is TRUE.  Normalized       *)
(* values are exact rationals n/d; floating-point rounding is not          *)
(* modelled.                                                               *)
(***************************************************************************)
EXTENDS Integers, Sequences, FiniteSets, TLC

MSEC_PER_H == 3600000
INTERVAL == 5000
SAMPLES_PER_H == MSEC_PER_H \div INTERVAL
SAMPLES_PER_MIN == SAMPLES_PER_H \div 60
LOAD_HOURS == 12

\* JS null, false, undefined (also an array hole) and NaN
NULL == -1
FALSE_ == -2
UNDEFINED == -3
NAN == -4

IsNumber(x) == x >= 0

Max(a, b) == IF a >= b THEN a ELSE b

\* a scalar entry and an instance-array entry of a tick or of the decoder state
S(x) == [arr |-> FALSE, v |-> x, inst |-> <<>>]
A(s) == [arr |-> TRUE, v |-> UNDEFINED, inst |-> s]

\* HISTORY_METRICS has nine metrics; load (4th) and network (9th) have instances
NumMetrics == 9

\* `const current_sample = []`: every index reads as undefined
EmptyState == [i \in 1..NumMetrics |-> S(UNDEFINED)]

\* `!state[i]`: undefined or the number 0 (an array is truthy)
Falsy(e) == ~e.arr /\ (e.v = UNDEFINED \/ e.v = NULL \/ e.v = FALSE_ \/ e.v = 0 \/ e.v = NAN)

\* index of the last numeric instance of an array, 0 when there is none
LastNumber(s) == IF \E k \in 1..Len(s) : IsNumber(s[k])
                 THEN CHOOSE k \in 1..Len(s) : IsNumber(s[k]) /\ \A j \in (k+1)..Len(s) : ~IsNumber(s[j])
                 ELSE 0

\* a decoder without carry-forward: the entry replaces the stored value
DecompressEntryNoCarry(sample, st) ==
    IF sample.arr THEN A(sample.inst) ELSE S(sample.v)

\* a decoder that replaces the stored instances by the array of the tick
DecompressEntryWholeArray(sample, st) ==
    IF sample.arr THEN A(sample.inst)
    ELSE IF IsNumber(sample.v) THEN S(sample.v) ELSE st

\* decompress_samples, the body for one index: numbers are stored, anything
\* else (null, false) keeps the stored value; an array updates per instance
\* and first turns an uninitialized state entry into []
DecompressEntry(sample, st) ==
    IF sample.arr
    THEN LET base == IF Falsy(st) THEN <<>> ELSE st.inst
             n == Max(Len(base), LastNumber(sample.inst))
         IN A([k \in 1..n |-> IF k <= Len(sample.inst) /\ IsNumber(sample.inst[k])
                                THEN sample.inst[k]
                                ELSE IF k <= Len(base) THEN base[k] ELSE UNDEFINED])
    ELSE IF IsNumber(sample.v) THEN S(sample.v) ELSE st

decompress_samples(samples, state) ==
    [i \in DOMAIN state |-> IF i <= Len(samples) THEN DecompressEntry(samples[i], state[i])
                                                 ELSE state[i]]

\* the inline decoder of CurrentMetrics.onMetricsUpdate in the older revision
\* part_002: only null is skipped, so false is stored like a reading
LastNonNull(s) == IF \E k \in 1..Len(s) : s[k] # NULL
                  THEN CHOOSE k \in 1..Len(s) : s[k] # NULL /\ \A j \in (k+1)..Len(s) : s[j] = NULL
                  ELSE 0

CurrentDecompressEntry(sample, st) ==
    IF sample.arr
    THEN LET base == st.inst
             n == Max(Len(base), LastNonNull(sample.inst))
         IN A([k \in 1..n |-> IF k <= Len(sample.inst) /\ sample.inst[k] # NULL
                                THEN sample.inst[k]
                                ELSE IF k <= Len(base) THEN base[k] ELSE UNDEFINED])
    ELSE IF sample.v # NULL THEN S(sample.v) ELSE st

current_decompress(samples, state) ==
    [i \in DOMAIN state |-> IF i <= Len(samples) THEN CurrentDecompressEntry(samples[i], state[i])
                                                 ELSE state[i]]


(***************************************************************************)
(* Dynamic range estimator                                                 *)
(***************************************************************************)
\* 10^floor(log10(x)) for x >= 1
RECURSIVE Pow10Floor(_)
Pow10Floor(x) == IF x < 10 THEN 1 ELSE 10 * Pow10Floor(x \div 10)

\* rounding down instead of up
scaleForValueFloor(x) ==
    LET scale == Pow10Floor(x)
    IN (x \div scale) * scale

scaleForValue(x) ==
    LET scale == Pow10Floor(x)
    IN ((x + scale - 1) \div scale) * scale

\* a ceiling that is never adapted
RescaleNever(scale, v) == scale

\* rescaling to every observation, without the comparison
RescaleUnguarded(scale, v) == IF IsNumber(v) /\ v >= 1 THEN scaleForValue(v) ELSE scale

\* `if (v > scale) scale = scaleForValue(v)`; null and undefined compare false

Rescale(scale, v) == IF IsNumber(v) /\ v > scale THEN scaleForValue(v) ELSE scale

(***************************************************************************)
(* Metric reducer: the sample object stored in a slot.  use_cpu and        *)
(* use_memory are arrays of raw readings, <<>> standing for null.          *)
(***************************************************************************)
RECURSIVE SumNumbers(_)
SumNumbers(s) == IF s = <<>> THEN 0
                 ELSE (IF IsNumber(Head(s)) THEN Head(s) ELSE 0) + SumNumbers(Tail(s))

\* current_sample[8].reduce((acc, cur) => acc + cur, 0); holes are skipped
UseNetwork(cs) == SumNumbers(cs[9].inst)

\* typeof current_sample[3][1] === 'number' ? current_sample[3][1] : null
SatCpu(cs) == IF Len(cs[4].inst) >= 2 /\ IsNumber(cs[4].inst[2]) THEN cs[4].inst[2] ELSE NULL

\* reading current_sample[8].reduce or current_sample[3][1] of undefined raises TypeError
ReduceRaises(cs) == ~cs[9].arr \/ ~cs[4].arr

\* a reduction whose CPU usage counts the user time only
ReduceSampleUserOnly(cs) ==
    [use_cpu    |-> IF IsNumber(cs[3].v) THEN <<0, cs[2].v, 0>> ELSE <<>>,
     sat_cpu    |-> SatCpu(cs),
     use_memory |-> IF IsNumber(cs[6].v) THEN <<cs[5].v, cs[6].v>> ELSE <<>>,
     sat_memory |-> cs[7].v,
     use_disks  |-> cs[8].v,
     use_network |-> UseNetwork(cs)]

ReduceSample(cs) ==
    [use_cpu    |-> IF IsNumber(cs[3].v) THEN <<cs[1].v, cs[2].v, cs[3].v>> ELSE <<>>,
     sat_cpu    |-> SatCpu(cs),
     use_memory |-> IF IsNumber(cs[6].v) THEN <<cs[5].v, cs[6].v>> ELSE <<>>,
     sat_memory |-> cs[7].v,
     use_disks  |-> cs[8].v,
     use_network |-> UseNetwork(cs)]


(***************************************************************************)
(* Normalization (RESOURCES[type].normalize and normData of MetricsHour).  *)
(* A normalized value is null, NaN or the exact rational n/d.              *)
(***************************************************************************)
numCpu == 1

NullValue == [k |-> "null", n |-> 0, d |-> 1]
NaNValue == [k |-> "nan", n |-> 0, d |-> 1]
Rat(n, d) == [k |-> "val", n |-> n, d |-> d]

\* a/b > c/d for b, d > 0, without forming products (Euclid on the fractions)
RECURSIVE FracGT(_, _, _, _)
FracGT(a, b, c, d) ==
    IF a \div b # c \div d THEN a \div b > c \div d
    ELSE IF a % b = 0 THEN FALSE
    ELSE IF c % d = 0 THEN TRUE
    ELSE FracGT(d, c % d, b, a % b)

Min(a, b) == IF a <= b THEN a ELSE b

\* the resource keys, in the order of `for (const type in RESOURCES)`
ResourceKeys == << "use_cpu", "sat_cpu", "use_memory", "sat_memory", "use_disks", "use_network" >>

NormalizeSatCpu(load, sat) == Rat(Min(load, sat), sat)

\* RESOURCES[type].normalize(raw); ceilings sat, disks, net as currently set.
\* An undefined operand makes the arithmetic NaN.
Normalize(type, raw, sat, disks, net) ==
    CASE type = "use_cpu" ->
            IF \E i \in 1..3 : ~IsNumber(raw[i]) THEN NaNValue
            ELSE Rat(raw[1] + raw[2] + raw[3], 1000 * numCpu)
      [] type = "sat_cpu" -> NormalizeSatCpu(raw, sat)
      [] type = "use_memory" ->
            IF ~IsNumber(raw[1]) \/ ~IsNumber(raw[2]) \/ raw[1] = 0 THEN NaNValue
            ELSE Rat(raw[1] - raw[2], raw[1])
      [] type = "sat_memory" ->
            IF raw > 1000 THEN Rat(1, 1) ELSE IF raw > 1 THEN Rat(3, 10) ELSE Rat(0, 1)
      [] type = "use_disks" -> Rat(raw, disks)
      [] type = "use_network" -> Rat(raw, net)

\* sample[type] is null or undefined (use_cpu and use_memory: <<>> is null)
RawMissing(type, sample) ==
    IF type \in {"use_cpu", "use_memory"} THEN sample[type] = <<>>
    ELSE sample[type] = NULL \/ sample[type] = UNDEFINED

\* one entry of normData
NormValue(type, sample, sat, disks, net) ==
    IF RawMissing(type, sample) THEN NullValue
    ELSE Normalize(type, sample[type], sat, disks, net)

\* 0 <= v <= 1 for a normalized number
InUnitInterval(v) == v.k = "val" /\ 0 <= v.n /\ v.n <= v.d

(***************************************************************************)
(* Event detector (MetricsHour, "compute spike events")                    *)
(***************************************************************************)
\* a previous value that starts at zero instead of at slot 0
InitialPrevZero(type, w) == Rat(0, 1)

\* `let prev_val = data[0] ? data[0][type] : null`: the RAW value of slot 0;
\* an array or undefined behaves as NaN in the comparisons below
InitialPrev(type, w) ==
    IF 0 \notin DOMAIN w THEN NullValue
    ELSE IF type \in {"use_cpu", "use_memory"}
         THEN (IF w[0][type] = <<>> THEN NullValue ELSE NaNValue)
         ELSE IF w[0][type] = NULL THEN NullValue
         ELSE IF IsNumber(w[0][type]) THEN Rat(w[0][type], 1)
         ELSE NaNValue

\* null converts to 0 in arithmetic and comparisons
AsNumber(v) == IF v.k = "null" THEN Rat(0, 1) ELSE v

\* value - prev > 0.25 || (prev < 0.8 && value >= 0.8), false when either is NaN
Rising(value, prev) ==
    LET v == AsNumber(value)
        q == AsNumber(prev)
    IN  /\ v.k = "val" /\ q.k = "val"
        /\ \/ FracGT(4 * v.n, v.d, 4 * q.n + q.d, q.d)
           \/ (5 * q.n < 4 * q.d /\ 5 * v.n >= 4 * v.d)

\* prev_val !== null && (...)
SpikeCondition(value, prev) == prev.k # "null" /\ Rising(value, prev)

\* ascending list of the indices of a sparse array (forEach skips holes)
RECURSIVE SortAscending(_)
SortAscending(set) ==
    IF set = {} THEN <<>>
    ELSE LET m == CHOOSE x \in set : \A y \in set : x <= y
         IN <<m>> \o SortAscending(set \ {m})

\* normData.forEach for one resource: the slot indices at which an event is
\* pushed; prev_val = value after every non-null sample, also when value is null
RECURSIVE Scan(_, _, _, _, _, _, _)
Scan(type, w, idx, prev, sat, disks, net) ==
    IF idx = <<>> THEN {}
    ELSE LET i == Head(idx)
             value == NormValue(type, w[i], sat, disks, net)
         IN (IF SpikeCondition(value, prev) THEN {i} ELSE {})
            \cup Scan(type, w, Tail(idx), value, sat, disks, net)

\* the slot indices of a window at which an event of the resource is pushed
SpikeSamples(type, w, sat, disks, net) ==
    Scan(type, w, SortAscending(DOMAIN w), InitialPrev(type, w), sat, disks, net)

\* Math.floor(i / SAMPLES_PER_MIN)
MinuteOf(i) == i \div SAMPLES_PER_MIN

\* the pushes `minute_events[minute].push(type)` of one resource, in order
Pushes(type, w, sat, disks, net) ==
    LET idx == SortAscending(SpikeSamples(type, w, sat, disks, net))
    IN [k \in 1..Len(idx) |-> << MinuteOf(idx[k]), type >>]

\* `for (const type in RESOURCES)`: the pushes of resources t.. in order
RECURSIVE AllPushes(_, _, _, _, _)
AllPushes(t, w, sat, disks, net) ==
    IF t > Len(ResourceKeys) THEN <<>>
    ELSE Pushes(ResourceKeys[t], w, sat, disks, net) \o AllPushes(t + 1, w, sat, disks, net)

\* minute_events: minute -> the list of resource types pushed for it
minute_events(w, sat, disks, net) ==
    LET p == AllPushes(1, w, sat, disks, net)
        TypesOf(m) == LET sel == SelectSeq(p, LAMBDA e : e[1] = m)
                      IN [k \in 1..Len(sel) |-> sel[k][2]]
    IN [m \in { p[k][1] : k \in 1..Len(p) } |-> TypesOf(m)]

\* the minutes in the order in which their property was created
RECURSIVE InsertionOrder(_)
InsertionOrder(p) ==
    IF p = <<>> THEN <<>>
    ELSE LET rest == InsertionOrder(SubSeq(p, 1, Len(p) - 1))
             m == p[Len(p)][1]
         IN IF \E k \in DOMAIN rest : rest[k] = m THEN rest ELSE Append(rest, m)

\* an enumeration of the properties in creation order
ForInCreationOrder(p) == InsertionOrder(p)

\* `for (const minute in minute_events)`: the keys are array indices, which
\* are enumerated in ascending numeric order whatever the creation order
ForIn(p) == SortAscending({ p[k][1] : k \in DOMAIN p })

\* events: one record per key of minute_events, with the types pushed for it
events(w, sat, disks, net) ==
    LET keys == ForIn(AllPushes(1, w, sat, disks, net))
        me == minute_events(w, sat, disks, net)
    IN [k \in DOMAIN keys |-> [minute |-> keys[k], types |-> me[keys[k]]]]

(***************************************************************************)
(* Bounds and inputs of the history pipeline                               *)
(***************************************************************************)
MaxFetches == 3
MaxMsgs == 4
MaxBatch == 2

\* `date +%s` when the page is opened, and the timestamps the archive
\* announces in meta messages (shortly before the end of hour 99)
NowHour == 100 * MSEC_PER_H
MetaTimes == { 99 * MSEC_PER_H + 718 * INTERVAL + 1234,
               99 * MSEC_PER_H + 719 * INTERVAL }

Tick(nice, user, sys, load, physmem, avail, swap, disk, net) ==
    << S(nice), S(user), S(sys), load, S(physmem), S(avail), S(swap), S(disk), net >>

\* RawTicks a subscription can deliver, in HISTORY_METRICS order:
\*  1 first tick of a subscription: rate metrics are not computable yet (false)
\*  2 a full tick
\*  3 a partial update: only user and the second interface changed
\*  4 nothing changed: every entry omitted
\*  5 a peak above all three initial ceilings
\*  6 a tick with nice, sys and avail but neither user nor physmem, and
\*    instance arrays without a known instance
RawTicks ==
    << Tick(FALSE_, FALSE_, FALSE_, A(<<1, 2, 1>>), 8000, 2000, FALSE_, FALSE_, A(<<FALSE_, FALSE_>>)),
       Tick(10, 20, 5, A(<<1, 2, 1>>), 8000, 2000, 0, 100, A(<<100, 200>>)),
       Tick(NULL, 25, NULL, S(NULL), NULL, NULL, NULL, NULL, A(<<NULL, 300>>)),
       Tick(NULL, NULL, NULL, S(NULL), NULL, NULL, NULL, NULL, S(NULL)),
       Tick(NULL, 700, NULL, A(<<NULL, 5, NULL>>), NULL, 1000, 1500, 20001, A(<<100001>>)),
       Tick(10, NULL, 5, A(<<>>), NULL, 2000, NULL, NULL, A(<<>>)) >>

TickIds == 1..Len(RawTicks)

\* batch messages: one to MaxBatch ticks
Batches == UNION { [1..n -> TickIds] : n \in 1..MaxBatch }

FetchIds == 1..MaxFetches

(***************************************************************************)
(* State                                                                   *)
(***************************************************************************)
VARIABLES
    data,              \* this.data: hour -> sparse array (slot index -> sample)
    scaleSatCPU, scaleUseDisks, scaleUseNetwork,
    most_recent, oldest_timestamp,
    hours, loading, metricsAvailable,   \* this.state
    started,           \* the constructor's initial load_data has run
    fetches,           \* per load_data call: channel status and closure variables
    timers,            \* pending setTimeout callbacks of the close handler
    delivered,         \* number of meta messages and ticks delivered so far
    tracing,           \* whether the run records `received`
    received           \* history: the messages each fetch has been delivered

\* state of the pure-function specifications (decoder, range estimator, event detector)
VARIABLES
    dec_decoder,       \* which decoder a run of SpecDecoder exercises
    dec_state,         \* its carried-forward state (current_sample / this.samples)
    dec_prev,          \* history: the state before the last tick
    dec_tick,          \* history: the last tick decoded (<<>> before the first)
    scale_obs,         \* history: the last observation <<sat_cpu, use_disks, use_network>>
    scale_prev,        \* history: the three ceilings before it
    ev_data,           \* the window handed to MetricsHour
    ev_rendered,       \* MetricsHour has been evaluated on it
    ev_events,         \* the minute_events it computed
    ev_list,           \* the `events` records it emitted, in order
    ev_pushed          \* per resource, the slots whose sample made it push an event

\* state of CurrentMetrics and of its channels
VARIABLES
    cockpit_hidden,    \* cockpit.hidden
    metrics_channel,   \* this.metrics_channel: null or the channel object
    cm_opened,         \* number of cockpit.channel() calls so far; channels are numbered by it
    cm_live,           \* the channels open on the bridge
    cm_listening,      \* the channels whose "message" listener is onMetricsUpdate
    cm_announced,      \* the channels that have sent their meta message
    cm_samples,        \* this.samples
    cm_state,          \* this.state: cpuUsed, disksRead, disksWritten
    cm_msgs,           \* number of messages handled by onMetricsUpdate
    cm_last            \* history: the kind of the message handled last

current == << cockpit_hidden, metrics_channel, cm_opened, cm_live, cm_listening, cm_announced,
             cm_samples, cm_state, cm_msgs, cm_last >>

aux == << dec_decoder, dec_state, dec_prev, dec_tick, scale_obs, scale_prev,
         ev_data, ev_rendered, ev_events, ev_list, ev_pushed, current >>

vars == << data, scaleSatCPU, scaleUseDisks, scaleUseNetwork, most_recent, oldest_timestamp,
           hours, loading, metricsAvailable, started, fetches, timers, delivered,
           tracing, received, dec_decoder, dec_state, dec_prev, dec_tick, scale_obs, scale_prev,
           ev_data, ev_rendered, ev_events, ev_list, ev_pushed, current >>

EmptyArray == [i \in {} |-> 0]

UnusedFetch ==
    [status |-> "unused", load_timestamp |-> 0, limit |-> UNDEFINED,
     current_hour |-> UNDEFINED, hour_index |-> UNDEFINED,
     current_sample |-> EmptyState, new_hours |-> {}]

\* after metrics.close() the closure of the fetch is unreachable
ClosedFetch == [UnusedFetch EXCEPT !.status = "closed"]

\* a meta message and a batch message, as recorded in `received`
MetaMessage(timestamp) == [meta |-> TRUE, timestamp |-> timestamp, batch |-> <<>>]
BatchMessage(batch) == [meta |-> FALSE, timestamp |-> 0, batch |-> batch]

\* the state after construction of MetricsHistory
InitHistory ==
    /\ data = EmptyArray
    /\ scaleSatCPU = 4
    /\ scaleUseDisks = 10000
    /\ scaleUseNetwork = 100000
    /\ most_recent = 0
    /\ oldest_timestamp = 0
    /\ hours = <<>>
    /\ loading = TRUE
    /\ metricsAvailable = TRUE
    /\ started = FALSE
    /\ fetches = [f \in FetchIds |-> UnusedFetch]
    /\ timers = 0
    /\ delivered = 0
    /\ tracing \in BOOLEAN
    /\ received = [f \in FetchIds |-> <<>>]

history == << data, scaleSatCPU, scaleUseDisks, scaleUseNetwork, most_recent, oldest_timestamp,
             hours, loading, metricsAvailable, started, fetches, timers, delivered,
             tracing, received >>

InitDec ==
    /\ dec_decoder = "decompress_samples"
    /\ dec_state = <<>>
    /\ dec_prev = <<>>
    /\ dec_tick = <<>>

InitScale ==
    /\ scale_obs = <<>>
    /\ scale_prev = <<>>

InitEv ==
    /\ ev_data = EmptyArray
    /\ ev_rendered = FALSE
    /\ ev_events = EmptyArray
    /\ ev_list = <<>>
    /\ ev_pushed = <<>>

(***************************************************************************)
(* CurrentMetrics: the channel that follows the page's visibility          *)
(***************************************************************************)
\* the number of CURRENT_METRICS; `this.samples = []` has none of them yet
NumCurrentMetrics == 11
EmptySamples == [i \in 1..NumCurrentMetrics |-> S(UNDEFINED)]

\* onVisibilityChange with cockpit.hidden = hidden, on the channel
\* bookkeeping cm = [metrics_channel, opened, live, listening]
onVisibilityChange(hidden, cm) ==
    IF hidden /\ cm.metrics_channel # NULL
    THEN \* removeEventListener("message"), close(), this.metrics_channel = null
         [cm EXCEPT !.listening = @ \ {cm.metrics_channel},
                    !.live = @ \ {cm.metrics_channel},
                    !.metrics_channel = NULL]
    ELSE IF ~hidden /\ cm.metrics_channel = NULL
    THEN \* cockpit.channel(...), addEventListener("message", this.onMetricsUpdate)
         [metrics_channel |-> cm.opened + 1,
          opened |-> cm.opened + 1,
          live |-> cm.live \cup {cm.opened + 1},
          listening |-> cm.listening \cup {cm.opened + 1}]
    ELSE cm

\* the constructor: no channel, no samples, then onVisibilityChange()
Constructed(hidden) ==
    onVisibilityChange(hidden, [metrics_channel |-> NULL, opened |-> 0, live |-> {}, listening |-> {}])

InitCurrentMetrics ==
    /\ cockpit_hidden \in BOOLEAN
    /\ metrics_channel = Constructed(cockpit_hidden).metrics_channel
    /\ cm_opened = Constructed(cockpit_hidden).opened
    /\ cm_live = Constructed(cockpit_hidden).live
    /\ cm_listening = Constructed(cockpit_hidden).listening
    /\ cm_announced = {}
    /\ cm_samples = EmptySamples
    /\ cm_state = [cpuUsed |-> 0, disksRead |-> 0, disksWritten |-> 0]
    /\ cm_msgs = 0
    /\ cm_last = "none"

\* the page is visible while the history is loaded
InitCurrent == InitCurrentMetrics /\ ~cockpit_hidden

InitAux == InitDec /\ InitScale /\ InitEv /\ InitCurrent

\* `received` extended by message m of fetch f
Record(f, m) == IF tracing THEN [received EXCEPT ![f] = Append(@, m)] ELSE received

Init == InitHistory /\ ~tracing /\ InitAux

\* the same runs with the message history recorded
InitTraced == InitHistory /\ tracing /\ InitAux

(***************************************************************************)
(* load_data: the message handler                                          *)
(***************************************************************************)
\* init_current_hour: create the hour's array if absent, remember the hour
init_current_hour(d, hour) == IF hour \in DOMAIN d THEN d ELSE (hour :> EmptyArray) @@ d

\* `this.data[current_hour][hour_index]` is truthy
Populated(d, hour, index) == hour \in DOMAIN d /\ index \in DOMAIN d[hour]

\* a write that advances the cursor without rolling over to the next hour
WriteSampleNoRollover(st, cs, sample) ==
    LET hour == st.f.current_hour
        index == st.f.hour_index
    IN  [data |-> [st.data EXCEPT ![hour] = (index :> sample) @@ @],
         sat |-> Rescale(st.sat, sample.sat_cpu),
         disks |-> Rescale(st.disks, sample.use_disks),
         net |-> Rescale(st.net, sample.use_network),
         f |-> [st.f EXCEPT !.current_sample = cs, !.hour_index = index + 1],
         raised |-> FALSE]

\* The body of message.forEach for one tick.  st carries the shared store,
\* the three ceilings, the closure variables f of the fetch and whether an
\* earlier tick of the batch raised (which ends the handler).
\* the tick is stored: write the slot, adapt the ceilings, advance the cursor
WriteSample(st, cs, sample) ==
    LET hour == st.f.current_hour
        index == st.f.hour_index
        written == [st.data EXCEPT ![hour] = (index :> sample) @@ @]
        overflow == index + 1 = SAMPLES_PER_H
        hour2 == IF overflow THEN hour + MSEC_PER_H ELSE hour
    IN  [data |-> IF overflow THEN init_current_hour(written, hour2) ELSE written,
         sat |-> Rescale(st.sat, sample.sat_cpu),
         disks |-> Rescale(st.disks, sample.use_disks),
         net |-> Rescale(st.net, sample.use_network),
         f |-> [st.f EXCEPT !.current_sample = cs,
                            !.current_hour = hour2,
                            !.hour_index = IF overflow THEN 0 ELSE index + 1,
                            !.new_hours = IF overflow THEN @ \cup {hour2} ELSE @],
         raised |-> FALSE]

\* the tick after decoding as in the revisions without the overwrite guard
StoreTickAlwaysWrite(st, cs) ==
    IF ReduceRaises(cs)
    THEN [st EXCEPT !.f.current_sample = cs, !.raised = TRUE]
    ELSE WriteSample(st, cs, ReduceSample(cs))

\* the tick after decoding: the overwrite guard, the reduction, the write
StoreTick(st, cs) ==
    IF ~IsNumber(cs[1].v) /\ Populated(st.data, st.f.current_hour, st.f.hour_index)
    THEN \* "don't overwrite existing data with null data": return
         [st EXCEPT !.f.current_sample = cs]
    ELSE IF ReduceRaises(cs)
    THEN [st EXCEPT !.f.current_sample = cs, !.raised = TRUE]
    ELSE WriteSample(st, cs, ReduceSample(cs))

TickStep(st, samples) ==
    IF st.raised THEN st
    ELSE StoreTick(st, decompress_samples(samples, st.f.current_sample))

RECURSIVE ForEachTick(_, _)
ForEachTick(st, batch) ==
    IF batch = <<>> THEN st
    ELSE ForEachTick(TickStep(st, RawTicks[Head(batch)]), Tail(batch))

\* the whole handler for a batch message
HandleBatch(d, sat, disks, net, f, batch) ==
    ForEachTick([data |-> d, sat |-> sat, disks |-> disks, net |-> net, f |-> f, raised |-> FALSE],
                batch)

\* the timestamp taken as it is, without rounding down to the unit
FloorNone(x, unit) == x

Floor(x, unit) == (x \div unit) * unit

\* a meta message that also starts the decoder state afresh
MetaResets(f, timestamp) ==
    /\ fetches[f].status = "open"
    /\ delivered < MaxMsgs
    /\ timestamp >= fetches[f].load_timestamp
    /\ LET hour == Floor(timestamp, MSEC_PER_H)
       IN /\ data' = init_current_hour(data, hour)
          /\ fetches' = [fetches EXCEPT ![f].current_hour = hour,
                                        ![f].hour_index = (timestamp - hour) \div INTERVAL,
                                        ![f].new_hours = @ \cup {hour},
                                        ![f].current_sample = EmptyState]
    /\ delivered' = delivered + 1
    /\ received' = Record(f, MetaMessage(timestamp))
    /\ UNCHANGED << scaleSatCPU, scaleUseDisks, scaleUseNetwork, most_recent, oldest_timestamp,
                    hours, loading, metricsAvailable, started, timers, tracing >>
    /\ UNCHANGED aux

\* a meta message repositions the cursor of fetch f
Meta(f, timestamp) ==
    /\ fetches[f].status = "open"
    /\ delivered < MaxMsgs
    /\ timestamp >= fetches[f].load_timestamp
    /\ LET hour == Floor(timestamp, MSEC_PER_H)
       IN /\ data' = init_current_hour(data, hour)
          /\ fetches' = [fetches EXCEPT ![f].current_hour = hour,
                                        ![f].hour_index = (timestamp - hour) \div INTERVAL,
                                        ![f].new_hours = @ \cup {hour}]
    /\ delivered' = delivered + 1
    /\ received' = Record(f, MetaMessage(timestamp))
    /\ UNCHANGED << scaleSatCPU, scaleUseDisks, scaleUseNetwork, most_recent, oldest_timestamp,
                    hours, loading, metricsAvailable, started, timers, tracing >>
    /\ UNCHANGED aux

\* a batch message; the source sends a meta message before the first batch
Batch(f, batch) ==
    /\ fetches[f].status = "open"
    /\ fetches[f].current_hour # UNDEFINED
    /\ delivered + Len(batch) <= MaxMsgs
    /\ \E r \in {HandleBatch(data, scaleSatCPU, scaleUseDisks, scaleUseNetwork, fetches[f], batch)} :
          /\ data' = r.data
          /\ scaleSatCPU' = r.sat
          /\ scaleUseDisks' = r.disks
          /\ scaleUseNetwork' = r.net
          /\ fetches' = [fetches EXCEPT ![f] = r.f]
          /\ most_recent' = IF r.raised THEN most_recent
                            ELSE Max(most_recent, r.f.current_hour + (r.f.hour_index - 5) * INTERVAL)
    /\ delivered' = delivered + Len(batch)
    /\ received' = Record(f, BatchMessage(batch))
    /\ UNCHANGED << oldest_timestamp, hours, loading, metricsAvailable, started, timers, tracing >>
    /\ UNCHANGED aux


(***************************************************************************)
(* load_data, its callers and the close handler                            *)
(***************************************************************************)
\* the channel of the next load_data call
NextFetch == CHOOSE f \in FetchIds : fetches[f].status = "unused"
                                     /\ \A g \in 1..(f-1) : fetches[g].status # "unused"

load_data(load_timestamp, limit) ==
    /\ \E f \in FetchIds : fetches[f].status = "unused"
    /\ loading' = TRUE
    /\ oldest_timestamp' = IF oldest_timestamp > load_timestamp \/ oldest_timestamp = 0
                           THEN load_timestamp ELSE oldest_timestamp
    /\ fetches' = [fetches EXCEPT ![NextFetch] =
                      [UnusedFetch EXCEPT !.status = "open",
                                          !.load_timestamp = load_timestamp,
                                          !.limit = limit]]

\* constructor: load the last LOAD_HOURS hours once `date` has answered
InitialLoad ==
    /\ ~started
    /\ started' = TRUE
    /\ load_data(NowHour - LOAD_HOURS * MSEC_PER_H, UNDEFINED)
    /\ UNCHANGED << data, scaleSatCPU, scaleUseDisks, scaleUseNetwork, most_recent,
                    hours, metricsAvailable, timers, delivered, tracing, received >>
    /\ UNCHANGED aux

\* the "Load earlier data" button, rendered when not loading
handleMoreData ==
    /\ started /\ metricsAvailable /\ ~loading
    /\ load_data(oldest_timestamp - LOAD_HOURS * MSEC_PER_H, LOAD_HOURS * SAMPLES_PER_H)
    /\ UNCHANGED << data, scaleSatCPU, scaleUseDisks, scaleUseNetwork, most_recent,
                    hours, metricsAvailable, started, timers, delivered, tracing, received >>
    /\ UNCHANGED aux

\* window.setTimeout(() => this.load_data(this.most_recent), 60000)
TimerFire ==
    /\ timers > 0
    /\ timers' = timers - 1
    /\ load_data(most_recent, UNDEFINED)
    /\ UNCHANGED << data, scaleSatCPU, scaleUseDisks, scaleUseNetwork, most_recent,
                    hours, metricsAvailable, started, delivered, tracing, received >>
    /\ UNCHANGED aux

\* hours.sort((a, b) => b - a) of a set of hours
RECURSIVE SortDescending(_)
SortDescending(set) ==
    IF set = {} THEN <<>>
    ELSE LET m == CHOOSE x \in set : \A y \in set : y <= x
         IN <<m>> \o SortDescending(set \ {m})

Range(seq) == { seq[i] : i \in DOMAIN seq }

\* a close handler that appends the new hours of the fetch to the rendered ones
setState_hoursConcat(problem, hs, new_hours) ==
    IF problem THEN hs ELSE hs \o SortDescending(new_hours)

\* a close handler that merges the hours of the fetch whatever the message
setState_hoursAlways(problem, hs, new_hours) == SortDescending(Range(hs) \cup new_hours)

\* a close handler that leaves the rendered hours as they are
setState_hoursKept(problem, hs, new_hours) == hs

\* state.hours after the close handler: kept on a problem, else the union
\* of the rendered hours and the new hours of the fetch, sorted descending
setState_hours(problem, hs, new_hours) ==
    IF problem THEN hs ELSE SortDescending(Range(hs) \cup new_hours)

\* a close handler that re-issues after every fetch / after bounded fetches only
ScheduleTimerAlways(limit, pending) == pending + 1
ScheduleTimerBounded(limit, pending) == IF limit = UNDEFINED THEN pending ELSE pending + 1

\* if (!limit) window.setTimeout(...): the pending timers after a close without problem
ScheduleTimer(limit, pending) == IF limit = UNDEFINED THEN pending + 1 ELSE pending

\* the close handler of fetch f
Close(f, problem) ==
    /\ fetches[f].status = "open"
    /\ fetches' = [fetches EXCEPT ![f] = ClosedFetch]
    /\ loading' = FALSE
    /\ hours' = setState_hours(problem, hours, fetches[f].new_hours)
    /\ IF problem
       THEN /\ metricsAvailable' = FALSE
            /\ UNCHANGED timers
       ELSE /\ timers' = ScheduleTimer(fetches[f].limit, timers)
            /\ UNCHANGED metricsAvailable
    /\ UNCHANGED << data, scaleSatCPU, scaleUseDisks, scaleUseNetwork, most_recent,
                    oldest_timestamp, started, delivered, tracing, received >>
    /\ UNCHANGED aux

Next ==
    \/ InitialLoad
    \/ handleMoreData
    \/ TimerFire
    \/ \E f \in FetchIds, t \in MetaTimes : Meta(f, t)
    \/ \E f \in FetchIds, b \in Batches : Batch(f, b)
    \/ \E f \in FetchIds, problem \in BOOLEAN : Close(f, problem)

Spec == Init /\ [][Next]_vars

SpecTraced == InitTraced /\ [][Next]_vars

(***************************************************************************)
(* The page left open: channels of closed fetches are reclaimed, the timer *)
(* callbacks run, and the source closes every fetch                        *)
(***************************************************************************)
MaxBackfills == 1
MaxLiveMsgs == 2

\* after metrics.close() nothing refers to the channel and its closure any more
Reclaim(f) ==
    /\ fetches[f].status = "closed"
    /\ fetches' = [fetches EXCEPT ![f] = UnusedFetch]
    /\ UNCHANGED << data, scaleSatCPU, scaleUseDisks, scaleUseNetwork, most_recent, oldest_timestamp,
                    hours, loading, metricsAvailable, started, timers, delivered, tracing, received >>
    /\ UNCHANGED aux

\* the user pages back at most MaxBackfills times
PageBack ==
    /\ oldest_timestamp > NowHour - (MaxBackfills + 1) * LOAD_HOURS * MSEC_PER_H
    /\ handleMoreData

NextLive ==
    \/ InitialLoad
    \/ PageBack
    \/ TimerFire
    \/ \E f \in FetchIds, t \in MetaTimes : delivered < MaxLiveMsgs /\ Meta(f, t)
    \/ \E f \in FetchIds, b \in Batches : delivered + Len(b) <= MaxLiveMsgs /\ Batch(f, b)
    \/ \E f \in FetchIds, problem \in BOOLEAN : Close(f, problem)
    \/ \E f \in FetchIds : Reclaim(f)

\* `date` answers, a timeout that was set runs its callback, the archive
\* source ends every fetch, and closed channels are collected
Fairness ==
    /\ WF_vars(InitialLoad)
    /\ SF_vars(TimerFire)
    /\ \A f \in FetchIds : WF_vars(\E problem \in BOOLEAN : Close(f, problem))
    /\ \A f \in FetchIds : WF_vars(Reclaim(f))

SpecLive == Init /\ [][NextLive]_vars /\ Fairness

(***************************************************************************)
(* The decoders on their own: any tick after any tick                      *)
(***************************************************************************)
MaxInst == 2

\* what the channel sends for a value: omitted, unavailable, or a reading
DecValues == { NULL, FALSE_, 0, 7 }

DecArrays == UNION { [1..n -> DecValues] : n \in 0..MaxInst }

\* a tick of one scalar metric and one instanced metric (omitted as a whole,
\* or an array with an entry per instance)
DecTicks == { << S(a), e >> : a \in DecValues, e \in {S(NULL)} \cup { A(x) : x \in DecArrays } }

\* the state a meta message leaves: [] for decompress_samples,
\* CURRENT_METRICS_INIT.slice() in part_002
DecoderInit(decoder) ==
    IF decoder = "decompress_samples" THEN << S(UNDEFINED), S(UNDEFINED) >>
    ELSE << S(NULL), A(<<>>) >>

InitDecoder ==
    /\ InitHistory /\ ~tracing /\ InitScale /\ InitEv /\ InitCurrent
    /\ dec_decoder \in { "decompress_samples", "onMetricsUpdate" }
    /\ dec_state = DecoderInit(dec_decoder)
    /\ dec_prev = dec_state
    /\ dec_tick = <<>>

Decode(tick) ==
    /\ dec_tick' = tick
    /\ dec_prev' = dec_state
    /\ dec_state' = IF dec_decoder = "decompress_samples"
                    THEN decompress_samples(tick, dec_state)
                    ELSE current_decompress(tick, dec_state)
    /\ UNCHANGED << history, dec_decoder, scale_obs, scale_prev, ev_data, ev_rendered, ev_events, ev_list, ev_pushed, current >>

NextDecoder == \E tick \in DecTicks : Decode(tick)

SpecDecoder == InitDecoder /\ [][NextDecoder]_vars

(***************************************************************************)
(* The dynamic scaling block on its own: any observation after any other   *)
(***************************************************************************)
MaxLoad == 12

\* sat_cpu, current_sample[7] and use_network of a tick (null: not known)
ObsSatCpu == {NULL} \cup 0..MaxLoad \cup { 4321, 5000 }
ObsUseDisks == { NULL, 9999, 10001, 54321 }
ObsUseNetwork == { NULL, 100001, 250000 }

InitScaling ==
    /\ InitHistory /\ ~tracing /\ InitDec /\ InitScale /\ InitEv /\ InitCurrent

\* "keep track of maximums of unbounded values, for dynamic scaling"
Observe(sat_cpu, use_disks, use_network) ==
    /\ scale_obs' = << sat_cpu, use_disks, use_network >>
    /\ scale_prev' = << scaleSatCPU, scaleUseDisks, scaleUseNetwork >>
    /\ scaleSatCPU' = Rescale(scaleSatCPU, sat_cpu)
    /\ scaleUseDisks' = Rescale(scaleUseDisks, use_disks)
    /\ scaleUseNetwork' = Rescale(scaleUseNetwork, use_network)
    /\ UNCHANGED << data, most_recent, oldest_timestamp, hours, loading, metricsAvailable,
                    started, fetches, timers, delivered, tracing, received >>
    /\ UNCHANGED << dec_decoder, dec_state, dec_prev, dec_tick, ev_data, ev_rendered, ev_events, ev_list, ev_pushed, current >>

NextScaling ==
    \E a \in ObsSatCpu, b \in ObsUseDisks, c \in ObsUseNetwork : Observe(a, b, c)

SpecScale == InitScaling /\ [][NextScaling]_vars

(***************************************************************************)
(* MetricsHour on its own: any window of a few slots                       *)
(***************************************************************************)
MaxEvSlots == 3

\* the first slots of minute 0 and the first slot of minute 1
EvSlots == 0..(MaxEvSlots - 1) \cup { SAMPLES_PER_MIN }

\* stored samples that differ in CPU usage or in load; the first tick of a
\* subscription stores use_cpu null, a missing load instance sat_cpu null
EvSample(cpu, load) ==
    [use_cpu    |-> IF cpu = NULL THEN <<>> ELSE << 0, cpu, 0 >>,
     sat_cpu    |-> load,
     use_memory |-> << 8000, 2000 >>,
     sat_memory |-> 0,
     use_disks  |-> 100,
     use_network |-> 300]

\* stored samples that differ in the swap-out rate (pages/s)
EvSwapRates == { 1, 2, 1000, 1001 }
EvSwapSample(r) == [EvSample(100, 4) EXCEPT !.sat_memory = r]

EvSamples == { EvSample(cpu, 4) : cpu \in { NULL, 100, 450, 790, 810 } }
             \cup { EvSample(100, load) : load \in { NULL, 1 } }
             \cup { EvSwapSample(r) : r \in EvSwapRates }

EvWindows == UNION { [d -> EvSamples] : d \in SUBSET EvSlots }

InitEvents ==
    /\ InitHistory /\ ~tracing /\ InitDec /\ InitScale /\ InitCurrent
    /\ ev_data \in EvWindows
    /\ ev_rendered = FALSE
    /\ ev_events = EmptyArray
    /\ ev_list = <<>>
    /\ ev_pushed = <<>>

\* MetricsHour({ startTime, data }) with the ceilings as they are
Render ==
    /\ ~ev_rendered
    /\ ev_rendered' = TRUE
    /\ ev_events' = minute_events(ev_data, scaleSatCPU, scaleUseDisks, scaleUseNetwork)
    /\ ev_list' = events(ev_data, scaleSatCPU, scaleUseDisks, scaleUseNetwork)
    /\ ev_pushed' = [t \in DOMAIN ResourceKeys |->
                        SpikeSamples(ResourceKeys[t], ev_data, scaleSatCPU, scaleUseDisks, scaleUseNetwork)]
    /\ UNCHANGED << history, dec_decoder, dec_state, dec_prev, dec_tick, scale_obs, scale_prev,
                    ev_data, current >>

NextEvents == Render

SpecEvents == InitEvents /\ [][NextEvents]_vars

(***************************************************************************)
(* MetricsHour of the oldest revision (app.jsx): the Window holds          *)
(* normalized values and the detector tests the slope only                 *)
(***************************************************************************)
\* `for (const type in RESOURCES)` of app.jsx
SlopeResourceKeys == << "use_cpu", "sat_cpu", "use_memory", "sat_memory" >>

\* value - prev_val > 0.25, false when either is NaN
SlopeRise(value, prev) ==
    /\ value.k = "val" /\ prev.k = "val"
    /\ FracGT(4 * value.n, value.d, 4 * prev.n + prev.d, prev.d)

\* `let prev_val = data[0] ? data[0][type] : null`
SlopeInitialPrev(type, w) == IF 0 \in DOMAIN w THEN w[0][type] ELSE NullValue

\* a scan that goes on after a qualifying sample, as forEach would
RECURSIVE SlopeScanForEach(_, _, _, _)
SlopeScanForEach(type, w, idx, prev) ==
    IF idx = <<>> THEN {}
    ELSE LET i == Head(idx)
             value == w[i][type]
         IN (IF prev.k # "null" /\ SlopeRise(value, prev) THEN {i} ELSE {})
            \cup SlopeScanForEach(type, w, Tail(idx), value)

SlopeSamplesForEach(type, w) ==
    SlopeScanForEach(type, w, SortAscending(DOMAIN w), SlopeInitialPrev(type, w))

\* the callback of data.some over the non-null slots: `return true` at the
\* first qualifying sample ends the scan
RECURSIVE SlopeScan(_, _, _, _)
SlopeScan(type, w, idx, prev) ==
    IF idx = <<>> THEN {}
    ELSE LET i == Head(idx)
             value == w[i][type]
         IN IF prev.k # "null" /\ SlopeRise(value, prev) THEN {i}
            ELSE SlopeScan(type, w, Tail(idx), value)

\* the slot indices of a window at which an event of the resource is pushed
SlopeSamples(type, w) ==
    SlopeScan(type, w, SortAscending(DOMAIN w), SlopeInitialPrev(type, w))

\* the pushes of resources t.. in order
RECURSIVE SlopeAllPushes(_, _)
SlopeAllPushes(t, w) ==
    IF t > Len(SlopeResourceKeys) THEN <<>>
    ELSE LET idx == SortAscending(SlopeSamples(SlopeResourceKeys[t], w))
         IN [k \in 1..Len(idx) |-> << MinuteOf(idx[k]), SlopeResourceKeys[t] >>]
            \o SlopeAllPushes(t + 1, w)

\* minute_events of app.jsx: minute -> the list of resource types pushed for it
slope_minute_events(w) ==
    LET p == SlopeAllPushes(1, w)
        TypesOf(m) == LET sel == SelectSeq(p, LAMBDA e : e[1] = m)
                      IN [k \in 1..Len(sel) |-> sel[k][2]]
    IN [m \in { p[k][1] : k \in 1..Len(p) } |-> TypesOf(m)]

\* events of app.jsx: one record per key of minute_events
slope_events(w) ==
    LET keys == ForIn(SlopeAllPushes(1, w))
        me == slope_minute_events(w)
    IN [k \in DOMAIN keys |-> [minute |-> keys[k], types |-> me[keys[k]]]]

\* stored samples of app.jsx: CPU usage 0.1, 0.45, 0.81 or NaN (a reading
\* was undefined), swap category 0, 0.3 or 1
SlopeSample(cpu, swap) ==
    [use_cpu |-> cpu, sat_cpu |-> Rat(4, 10), use_memory |-> Rat(3, 4), sat_memory |-> swap]

SlopeSamplesIn ==
    { SlopeSample(cpu, swap) : cpu \in { Rat(100, 1000), Rat(450, 1000), Rat(810, 1000), NaNValue },
                               swap \in { Rat(0, 1), Rat(3, 10), Rat(1, 1) } }

SlopeWindows == UNION { [d -> SlopeSamplesIn] : d \in SUBSET EvSlots }

InitSlope ==
    /\ InitHistory /\ ~tracing /\ InitDec /\ InitScale /\ InitCurrent
    /\ ev_data \in SlopeWindows
    /\ ev_rendered = FALSE
    /\ ev_events = EmptyArray
    /\ ev_list = <<>>
    /\ ev_pushed = <<>>

\* MetricsHour({ startTime, data }) of app.jsx
RenderSlopeOnly ==
    /\ ~ev_rendered
    /\ ev_rendered' = TRUE
    /\ ev_events' = slope_minute_events(ev_data)
    /\ ev_list' = slope_events(ev_data)
    /\ ev_pushed' = [t \in DOMAIN SlopeResourceKeys |-> SlopeSamples(SlopeResourceKeys[t], ev_data)]
    /\ UNCHANGED << history, dec_decoder, dec_state, dec_prev, dec_tick, scale_obs, scale_prev,
                    ev_data, current >>

NextSlope == RenderSlopeOnly

SpecSlope == InitSlope /\ [][NextSlope]_vars

(***************************************************************************)
(* CurrentMetrics on its own: visibility changes, the source closing the   *)
(* channel, and the messages of the live channel                           *)
(***************************************************************************)
MaxChannels == 3
MaxCmMsgs == 3

ChannelIds == 1..MaxChannels

\* ticks in CURRENT_METRICS order: cpu user, system, nice (ms/s), memory used,
\* swap used, disk read, written, interface rx, tx, cgroup cpu, cgroup memory:
\* a full tick, a tick with a new user rate and one interface only, and a
\* first tick whose rates cannot be computed yet
CmTicks ==
    << << S(300), S(100), S(15), S(4000), S(0), S(7), S(0),
          A(<< 1, 2 >>), A(<< 3, 4 >>), A(<< 50 >>), A(<< 600 >>) >>,
       << S(200), S(NULL), S(NULL), S(NULL), S(NULL), S(NULL), S(NULL),
          A(<< NULL, 9 >>), S(NULL), S(NULL), S(NULL) >>,
       << S(FALSE_), S(FALSE_), S(FALSE_), S(4000), S(0), S(FALSE_), S(FALSE_),
          A(<< FALSE_, FALSE_ >>), A(<< FALSE_, FALSE_ >>), A(<< FALSE_ >>), A(<< 600 >>) >> >>

CmBatches == UNION { [1..n -> DOMAIN CmTicks] : n \in 1..2 }

\* data.forEach(samples => decompress_samples(samples, this.samples))
RECURSIVE CmDecodeAll(_, _)
CmDecodeAll(st, b) ==
    IF b = <<>> THEN st
    ELSE CmDecodeAll(decompress_samples(CmTicks[Head(b)], st), Tail(b))

\* Math.round((user + system + nice) / 10 / numCpu), NaN when one is undefined
CpuUsed(st) ==
    IF IsNumber(st[2].v) /\ IsNumber(st[3].v)
    THEN (st[1].v + st[2].v + st[3].v + 5 * numCpu) \div (10 * numCpu)
    ELSE NAN

\* the part of newState that is assigned under a typeof test
newState(st, old) ==
    [cpuUsed |-> IF IsNumber(st[1].v) THEN CpuUsed(st) ELSE old.cpuUsed,
     disksRead |-> IF IsNumber(st[6].v) THEN st[6].v ELSE old.disksRead,
     disksWritten |-> IF IsNumber(st[7].v) THEN st[7].v ELSE old.disksWritten]

pure == << dec_decoder, dec_state, dec_prev, dec_tick, scale_obs, scale_prev,
          ev_data, ev_rendered, ev_events, ev_list, ev_pushed >>

\* cockpit fires "visibilitychange" when the page is hidden or shown
VisibilityChange ==
    /\ (cockpit_hidden /\ metrics_channel = NULL) => cm_opened < MaxChannels
    /\ cockpit_hidden' = ~cockpit_hidden
    /\ \E r \in { onVisibilityChange(~cockpit_hidden,
                                      [metrics_channel |-> metrics_channel, opened |-> cm_opened,
                                       live |-> cm_live, listening |-> cm_listening]) } :
          /\ metrics_channel' = r.metrics_channel
          /\ cm_opened' = r.opened
          /\ cm_live' = r.live
          /\ cm_listening' = r.listening
    /\ UNCHANGED << cm_announced, cm_samples, cm_state, cm_msgs, cm_last >>
    /\ UNCHANGED << history, pure >>

\* the source closes channel c on its own; the "closed" listener logs it
ChannelClosed(c) ==
    /\ c \in cm_live
    /\ cm_live' = cm_live \ {c}
    /\ UNCHANGED << cockpit_hidden, metrics_channel, cm_opened, cm_listening, cm_announced,
                    cm_samples, cm_state, cm_msgs, cm_last >>
    /\ UNCHANGED << history, pure >>

\* onMetricsUpdate for a meta message of channel c
CmMeta(c) ==
    /\ c \in cm_live \cap cm_listening
    /\ cm_msgs < MaxCmMsgs
    /\ cm_samples' = EmptySamples
    /\ cm_announced' = cm_announced \cup {c}
    /\ cm_msgs' = cm_msgs + 1
    /\ cm_last' = "meta"
    /\ UNCHANGED << cockpit_hidden, metrics_channel, cm_opened, cm_live, cm_listening, cm_state >>
    /\ UNCHANGED << history, pure >>

\* onMetricsUpdate for a data message of channel c, which follows its meta message
CmData(c, b) ==
    /\ c \in cm_live \cap cm_listening \cap cm_announced
    /\ cm_msgs < MaxCmMsgs
    /\ cm_samples' = CmDecodeAll(cm_samples, b)
    /\ cm_state' = newState(cm_samples', cm_state)
    /\ cm_msgs' = cm_msgs + 1
    /\ cm_last' = "data"
    /\ UNCHANGED << cockpit_hidden, metrics_channel, cm_opened, cm_live, cm_listening, cm_announced >>
    /\ UNCHANGED << history, pure >>

InitCurrentOnly == InitHistory /\ ~tracing /\ InitDec /\ InitScale /\ InitEv /\ InitCurrentMetrics

NextCurrent ==
    \/ VisibilityChange
    \/ \E c \in ChannelIds : ChannelClosed(c)
    \/ \E c \in ChannelIds : CmMeta(c)
    \/ \E c \in ChannelIds, b \in CmBatches : CmData(c, b)

SpecCurrent == InitCurrentOnly /\ [][NextCurrent]_vars

(***************************************************************************)
(* Properties of the shared store                                          *)
(***************************************************************************)
\* the populated slots of the store as pairs <<hour, slot index>>
PopulatedSlots(d) == UNION { { << h, i >> : i \in DOMAIN d[h] } : h \in DOMAIN d }

Cursor(f) == << fetches[f].current_hour, fetches[f].hour_index >>

MetaThenBatches(h) ==
    /\ Len(h) >= 1
    /\ h[1].meta
    /\ \A k \in 2..Len(h) : ~h[k].meta

\* the number of ticks in the batches of a history
RECURSIVE TickCount(_)
TickCount(h) == IF h = <<>> THEN 0 ELSE Len(Head(h).batch) + TickCount(Tail(h))

\* the window and the slot index of a point in time
SlotOfTime(t) == << Floor(t, MSEC_PER_H), (t % MSEC_PER_H) \div INTERVAL >>

\* C2 as stated: on a fresh store, when one fetch alone has received a meta
\* message with timestamp T and then batches of K ticks in total, the
\* populated slots are exactly the K slots of T + k*INTERVAL, k = 0..K-1,
\* continuing at slot 0 of the next hour's window past the hour boundary.
C2_SlotPositions ==
    \A f \in FetchIds :
        (/\ \A g \in FetchIds \ {f} : received[g] = <<>>
         /\ MetaThenBatches(received[f]))
        => PopulatedSlots(data) =
              { SlotOfTime(received[f][1].timestamp + k * INTERVAL) :
                   k \in 0..(TickCount(received[f]) - 1) }

(***************************************************************************)
(* Properties of the decoders                                              *)
(***************************************************************************)
\* the reading a decoder state holds for a scalar metric and for instance k
ScalarOf(e) == IF e.arr THEN UNDEFINED ELSE e.v
InstanceAt(e, k) == IF e.arr /\ k <= Len(e.inst) THEN e.inst[k] ELSE UNDEFINED

SameReadings(a, b) ==
    \A i \in DOMAIN a : /\ ScalarOf(a[i]) = ScalarOf(b[i])
                         /\ \A k \in 1..(MaxInst + 1) : InstanceAt(a[i], k) = InstanceAt(b[i], k)

\* an entry that is omitted: null, or an array of nulls only
OmittedEntry(e) == IF e.arr THEN \A k \in DOMAIN e.inst : e.inst[k] = NULL ELSE e.v = NULL

AllOmitted(tick) == tick # <<>> /\ \A i \in DOMAIN tick : OmittedEntry(tick[i])

HasReading(st) ==
    \E i \in DOMAIN st : \/ IsNumber(ScalarOf(st[i]))
                          \/ \E k \in 1..MaxInst : IsNumber(InstanceAt(st[i], k))

\* C3: once a real reading has arrived, decoding a tick whose entries are all
\* omitted leaves every scalar and every instance of the decoder state as it
\* was.
C3_CarryForward ==
    (AllOmitted(dec_tick) /\ HasReading(dec_prev)) => SameReadings(dec_state, dec_prev)

\* C3 witness: decompress_samples has decoded an all-omitted tick on top of a
\* scalar reading and two instance readings, the reading 0 among them.
C3_OmittedAfterReadings ==
    /\ dec_decoder = "decompress_samples"
    /\ AllOmitted(dec_tick)
    /\ dec_prev = << S(7), A(<< 0, 7 >>) >>
    /\ dec_state = dec_prev

\* C4 as stated: in both decoders an omitted entry (null) and the unavailable
\* marker (false) leave the stored value of that index or instance unchanged,
\* and a reading of 0 is stored.
C4_UnavailableLikeOmitted ==
    dec_tick # <<>> =>
        \A i \in DOMAIN dec_tick :
            IF dec_tick[i].arr
            THEN \A k \in DOMAIN dec_tick[i].inst :
                    /\ dec_tick[i].inst[k] \in { NULL, FALSE_ }
                          => InstanceAt(dec_state[i], k) = InstanceAt(dec_prev[i], k)
                    /\ dec_tick[i].inst[k] = 0 => InstanceAt(dec_state[i], k) = 0
            ELSE /\ dec_tick[i].v \in { NULL, FALSE_ } => dec_state[i] = dec_prev[i]
                 /\ dec_tick[i].v = 0 => dec_state[i] = S(0)

(***************************************************************************)
(* Properties of the event detector                                        *)
(***************************************************************************)
\* the normalized value of a resource at slot i of the rendered window
NormAt(type, i) == NormValue(type, ev_data[i], scaleSatCPU, scaleUseDisks, scaleUseNetwork)

\* the slots before i that hold a non-null value of the resource
EarlierReal(type, i) == { j \in DOMAIN ev_data : j < i /\ NormAt(type, j).k # "null" }

LastOf(set) == CHOOSE x \in set : \A y \in set : y <= x

\* the rule of C5: v against the last earlier non-null value p
ClaimedSpike(type, i) ==
    /\ NormAt(type, i).k # "null"
    /\ EarlierReal(type, i) # {}
    /\ Rising(NormAt(type, i), NormAt(type, LastOf(EarlierReal(type, i))))

\* how often the resource was pushed for the minute
EventsAt(minute, type) ==
    IF minute \in DOMAIN ev_events
    THEN Cardinality({ k \in DOMAIN ev_events[minute] : ev_events[minute][k] = type })
    ELSE 0

\* C5 as stated: for each resource, an event is emitted at minute
\* floor(i / SAMPLES_PER_MIN) for sample i exactly when its normalized value v
\* and the last earlier non-null normalized value p of the resource satisfy
\* v - p > 0.25 or p < 0.8 <= v, and nothing is emitted otherwise.
C5_EventRule ==
    ev_rendered =>
        \A t \in DOMAIN ResourceKeys : \A minute \in { MinuteOf(i) : i \in EvSlots } :
            EventsAt(minute, ResourceKeys[t]) =
                Cardinality({ i \in DOMAIN ev_data :
                                MinuteOf(i) = minute /\ ClaimedSpike(ResourceKeys[t], i) })

\* C6 as stated: after a real value p, null samples and samples whose value
\* for the resource is null are skipped without resetting the previous value:
\* the next real value v that rises over p (v - p > 0.25 or p < 0.8 <= v)
\* produces an event.
C6_GapKeepsPrevious ==
    ev_rendered =>
        \A t \in DOMAIN ResourceKeys : \A i, j \in DOMAIN ev_data :
            (/\ i < j
             /\ NormAt(ResourceKeys[t], i).k = "val"
             /\ NormAt(ResourceKeys[t], j).k = "val"
             /\ \A m \in DOMAIN ev_data : (i < m /\ m < j) => NormAt(ResourceKeys[t], m).k = "null"
             /\ Rising(NormAt(ResourceKeys[t], j), NormAt(ResourceKeys[t], i)))
            => EventsAt(MinuteOf(j), ResourceKeys[t]) >= 1

(***************************************************************************)
(* Properties of normalization and of the ceilings                         *)
(***************************************************************************)
\* C7 as stated: every non-null normalized value that MetricsHour computes
\* from a stored sample with the current ceilings lies in [0,1], for all six
\* resources.
C7_NormalizedInUnitInterval ==
    \A h \in DOMAIN data : \A i \in DOMAIN data[h] : \A t \in DOMAIN ResourceKeys :
        LET v == NormValue(ResourceKeys[t], data[h][i], scaleSatCPU, scaleUseDisks, scaleUseNetwork)
        IN v.k = "null" \/ InUnitInterval(v)

\* C8: none of the three ceilings ever decreases, in any step of any
\* interleaving of the fetches, and none falls below its initial floor
\* (4, 10000, 100000).
C8_CeilingsMonotone ==
    [][/\ scaleSatCPU' >= scaleSatCPU /\ scaleSatCPU' >= 4
       /\ scaleUseDisks' >= scaleUseDisks /\ scaleUseDisks' >= 10000
       /\ scaleUseNetwork' >= scaleUseNetwork /\ scaleUseNetwork' >= 100000]_vars

\* C8 witness: the disk ceiling was raised by a peak of 20001 and a later,
\* lower reading of 100 is stored in the slot after it.
C8_RaisedThenLower ==
    /\ scaleUseDisks = 30000
    /\ \E h \in DOMAIN data : \E i \in DOMAIN data[h] :
          /\ data[h][i].use_disks = 20001
          /\ Populated(data, h, i + 1)
          /\ data[h][i + 1].use_disks = 100

\* the numbers whose digits are all zero except the leading one
RoundNumbers == { d * p : d \in 1..9, p \in { 1, 10, 100, 1000, 10000, 100000, 1000000 } }

SmallestRoundAtLeast(x) ==
    CHOOSE r \in RoundNumbers : r >= x /\ \A q \in RoundNumbers : q >= x => r <= q

\* C9: an observation x above the ceiling makes the ceiling the smallest
\* number >= x whose digits are all zero except the leading one (4321 gives
\* 5000, 5000 gives 5000, 10001 gives 20000); any other observation leaves
\* the ceiling unchanged.
C9_ScaleForValue ==
    /\ scaleForValue(4321) = 5000 /\ scaleForValue(5000) = 5000 /\ scaleForValue(10001) = 20000
    /\ scale_obs # <<>> =>
          LET after == << scaleSatCPU, scaleUseDisks, scaleUseNetwork >>
          IN \A r \in 1..3 :
                IF IsNumber(scale_obs[r]) /\ scale_obs[r] > scale_prev[r]
                THEN after[r] = SmallestRoundAtLeast(scale_obs[r])
                ELSE after[r] = scale_prev[r]

\* C9 witness: a load of 4321 has raised its ceiling to 5000 and a disk rate
\* of 10001 its ceiling from 10000 to 20000, the network rate being unknown.
C9_Rescaled ==
    /\ scale_obs = << 4321, 10001, NULL >>
    /\ scale_prev[1] < 4321 /\ scale_prev[2] = 10000
    /\ scaleSatCPU = 5000 /\ scaleUseDisks = 20000
    /\ scaleUseNetwork = scale_prev[3]

(***************************************************************************)
(* Properties of the per-fetch state                                       *)
(***************************************************************************)
\* C10 as stated: the cursor and the decoder state of a fetch depend only on
\* the messages that fetch has received: two open fetches that have received
\* the same messages have the same cursor and the same decoder state.
C10_PrivateCursor ==
    \A f, g \in FetchIds :
        (/\ fetches[f].status = "open" /\ fetches[g].status = "open"
         /\ received[f] = received[g])
        => /\ Cursor(f) = Cursor(g)
           /\ fetches[f].current_sample = fetches[g].current_sample

(***************************************************************************)
(* C11 - live-tail subscriptions do not accumulate                         *)
(***************************************************************************)
\* the unbounded (no sample limit) fetches that are open
UnboundedOpen == { f \in FetchIds : fetches[f].status = "open" /\ fetches[f].limit = UNDEFINED }

\* the bounded backfill fetches that are open
BoundedOpen == { f \in FetchIds : fetches[f].status = "open" /\ fetches[f].limit # UNDEFINED }

\* fetch f is closed by the step
Closes(f) == fetches[f].status = "open" /\ fetches'[f].status = "closed"

\* C11: at every moment at most one unbounded history fetch is open or
\* scheduled by timer, and the close of a bounded backfill fetch never
\* schedules a re-issue.
C11_NoAccumulation ==
    /\ [](Cardinality(UnboundedOpen) + timers <= 1)
    /\ [][\A f \in BoundedOpen : Closes(f) => timers' = timers]_vars

\* a re-issue is scheduled while a backfill is open, and a backfill has closed
\* while a live-tail fetch is open
C11_TimerBesideBackfill ==
    \/ timers = 1 /\ BoundedOpen # {}
    \/ UnboundedOpen # {} /\ BoundedOpen # {} /\ \E f \in FetchIds : fetches[f].status = "closed"

(***************************************************************************)
(* C12 - live-tail keeps recurring                                         *)
(***************************************************************************)
\* a fetch issued by the timer: unbounded, and not the constructor's
TimerIssued(f) ==
    /\ fetches[f].status = "open"
    /\ fetches[f].limit = UNDEFINED
    /\ fetches[f].load_timestamp # NowHour - LOAD_HOURS * MSEC_PER_H

\* C12: whenever an unbounded fetch has closed without a problem (its timer
\* is pending), a new unbounded fetch is eventually issued; and as long as
\* no fetch closes with a problem an unbounded fetch is open again and again.
C12_LiveTailRecurs ==
    /\ (timers > 0) ~> (UnboundedOpen # {})
    /\ []<>(UnboundedOpen # {} \/ ~metricsAvailable)

\* the timer has re-issued the live-tail fetch after samples were received
C12_Reissued == \E f \in FetchIds : TimerIssued(f) /\ fetches[f].load_timestamp > 0

(***************************************************************************)
(* C13 - the anchor of a re-issued live-tail fetch                         *)
(***************************************************************************)
\* the times of the slots that hold a sample
SampleTimes(d) == { p[1] + p[2] * INTERVAL : p \in PopulatedSlots(d) }

\* the time of the latest sample in the store
LatestSampleTime(d) == CHOOSE t \in SampleTimes(d) : \A u \in SampleTimes(d) : u <= t

\* the step is the timer's callback issuing fetch f
IssuedByTimer(f) ==
    timers' = timers - 1 /\ fetches[f].status = "unused" /\ fetches'[f].status = "open"

\* C13: the start timestamp the timer passes to load_data is the timestamp
\* of the latest sample received so far by any fetch, neither earlier nor
\* later: it lies in the slot of that sample.
C13_AnchoredAtLatestSample ==
    [][\A f \in FetchIds :
          IssuedByTimer(f) /\ SampleTimes(data) # {} =>
              /\ fetches'[f].load_timestamp = most_recent
              /\ SlotOfTime(fetches'[f].load_timestamp) = SlotOfTime(LatestSampleTime(data))]_vars

(***************************************************************************)
(* C14 - the oldest-known timestamp extends backward                       *)
(***************************************************************************)
\* the step is handleMoreData issuing fetch f
IssuedByMoreData(f) ==
    /\ fetches[f].status = "unused"
    /\ fetches'[f].status = "open"
    /\ fetches'[f].limit # UNDEFINED

\* C14: once the first load_data call has set oldest_timestamp no later
\* load_data call makes it larger, and handleMoreData requests LOAD_HOURS
\* hours before it with a limit of LOAD_HOURS * SAMPLES_PER_H samples.
C14_OldestMonotone ==
    [][/\ started => oldest_timestamp' <= oldest_timestamp
       /\ \A f \in FetchIds :
             IssuedByMoreData(f) =>
                 /\ fetches'[f].load_timestamp = oldest_timestamp - LOAD_HOURS * MSEC_PER_H
                 /\ fetches'[f].limit = LOAD_HOURS * SAMPLES_PER_H]_vars

(***************************************************************************)
(* C15 - the Windows handed to the renderer                                *)
(***************************************************************************)
\* the hours a fetch was positioned at by its meta messages
MetaHours(f) == { Floor(received[f][k].timestamp, MSEC_PER_H) :
                      k \in { j \in DOMAIN received[f] : received[f][j].meta } }

\* C15: after any sequence of fetch completions state.hours is in strictly
\* descending order of start timestamp, so no start timestamp occurs twice.
C15_HoursDescending ==
    \A i, j \in DOMAIN hours : i < j => hours[i] > hours[j]

\* two completed fetches touched the same hour and two Windows are rendered
C15_SharedHour ==
    /\ Len(hours) >= 2
    /\ \E f, g \in FetchIds :
          /\ f # g
          /\ fetches[f].status = "closed" /\ fetches[g].status = "closed"
          /\ MetaHours(f) \cap MetaHours(g) \cap Range(hours) # {}

(***************************************************************************)
(* C16 - a closing subscription undoes nothing                             *)
(***************************************************************************)
\* the step closes fetch f with a problem: it makes the pipeline unavailable,
\* or it closes an unbounded fetch without scheduling the re-issue
ClosesWithProblem(f) ==
    /\ Closes(f)
    /\ \/ metricsAvailable /\ ~metricsAvailable'
       \/ fetches[f].limit = UNDEFINED /\ timers' = timers

\* C16: the close handler leaves every Window and slot of the shared store
\* unchanged; on a problem close it only sets metricsAvailable and loading
\* to false and leaves state.hours, most_recent, oldest_timestamp and the
\* ceilings unchanged.
C16_CloseKeepsData ==
    [][\A f \in FetchIds :
          /\ Closes(f) => data' = data
          /\ ClosesWithProblem(f) =>
                /\ ~metricsAvailable' /\ ~loading'
                /\ hours' = hours
                /\ most_recent' = most_recent
                /\ oldest_timestamp' = oldest_timestamp
                /\ << scaleSatCPU, scaleUseDisks, scaleUseNetwork >>' =
                       << scaleSatCPU, scaleUseDisks, scaleUseNetwork >>]_vars

\* a fetch has failed after samples were stored in an hour not yet rendered
C16_FailedAfterData ==
    /\ ~metricsAvailable
    /\ PopulatedSlots(data) # {}
    /\ \E h \in DOMAIN data : h \notin Range(hours)
    /\ \A f \in FetchIds : fetches[f].status # "open"

(***************************************************************************)
(* C17 - recovery by a fresh fetch                                         *)
(***************************************************************************)
\* fetch f is the only open fetch and was issued after every close so far:
\* load_data sets loading, every close handler clears it
IssuedAfterAllCloses(f) ==
    /\ loading
    /\ fetches[f].status = "open"
    /\ \A g \in FetchIds \ {f} : fetches[g].status # "open"

\* C17: after a fetch has closed with a problem, a fetch issued afterwards
\* that closes without a problem returns the pipeline to the available
\* state, in which the Windows are presented.
C17_RecoversByFreshFetch ==
    [][\A f \in FetchIds :
          /\ ~metricsAvailable
          /\ IssuedAfterAllCloses(f)
          /\ Closes(f)
          /\ timers' > timers
          => metricsAvailable']_vars

(***************************************************************************)
(* C18 - a derivation with a missing input yields no-data                  *)
(***************************************************************************)
\* every input of a stored CPU or memory derivation is a number
AllKnown(inputs) == \A k \in DOMAIN inputs : IsNumber(inputs[k])

\* the sample written for decoded state cs has no-data for every resource
\* whose derivation lacks an input
NoDataWhenUnknown(cs, sample) ==
    /\ sample.use_cpu # <<>> => AllKnown(sample.use_cpu)
    /\ sample.use_memory # <<>> => AllKnown(sample.use_memory)
    /\ ~(Len(cs[4].inst) >= 2 /\ IsNumber(cs[4].inst[2])) => sample.sat_cpu = NULL
    /\ (\E k \in DOMAIN cs[9].inst : ~IsNumber(cs[9].inst[k])) \/ cs[9].inst = <<>>
           => ~IsNumber(sample.use_network)

\* C18: use_cpu is null unless nice, user and sys are all known, use_memory
\* is null unless total and available are known, sat_cpu is null when the
\* one-minute load is unknown and use_network is no-data when an interface
\* rate is unknown: never zero, never computed from the unknown input.
C18_MissingInputNoData ==
    \A f \in FetchIds :
        LET hour == fetches[f].current_hour
            last == fetches[f].hour_index - 1
        IN  /\ fetches[f].status = "open"
            /\ Populated(data, hour, last)
            /\ ~ReduceRaises(fetches[f].current_sample)
            /\ data[hour][last] = ReduceSample(fetches[f].current_sample)
            => NoDataWhenUnknown(fetches[f].current_sample, data[hour][last])

(***************************************************************************)
(* C19 - partial data never surfaces as an error                           *)
(***************************************************************************)
\* the step delivers batch b to fetch f
Delivers(f, b) == received'[f] = Append(received[f], BatchMessage(b))

\* the decoder state of a fetch after every tick of batch b was decoded
RECURSIVE DecodeAll(_, _)
DecodeAll(cs, b) ==
    IF b = <<>> THEN cs
    ELSE DecodeAll(decompress_samples(RawTicks[Head(b)], cs), Tail(b))

\* C19: for every batch that follows a meta message the handler completes
\* without raising: the slot of the first tick holds a sample afterwards,
\* and every tick of the batch has been decoded.
C19_HandlerCompletes ==
    [][\A f \in FetchIds : \A b \in Batches :
          Delivers(f, b) =>
              /\ Populated(data', fetches[f].current_hour, fetches[f].hour_index)
              /\ fetches'[f].current_sample = DecodeAll(fetches[f].current_sample, b)]_vars

(***************************************************************************)
(* C20 - an out-of-order meta message                                      *)
(***************************************************************************)
\* the step delivers a meta message with timestamp t to fetch f
DeliversMeta(f, t) == received'[f] = Append(received[f], MetaMessage(t))

\* timestamp t lies before the position the cursor of fetch f has reached
BeforeCursor(f, t) ==
    /\ fetches[f].current_hour # UNDEFINED
    /\ t < fetches[f].current_hour + fetches[f].hour_index * INTERVAL

\* C20: a meta message whose timestamp lies before the position the cursor
\* of the fetch has already reached is ignored: it changes neither the
\* cursor nor any Window.
C20_OutOfOrderMetaIgnored ==
    [][\A f \in FetchIds : \A t \in MetaTimes :
          DeliversMeta(f, t) /\ BeforeCursor(f, t) =>
              /\ fetches'[f].current_hour = fetches[f].current_hour
              /\ fetches'[f].hour_index = fetches[f].hour_index
              /\ data' = data]_vars

(***************************************************************************)
(* C21, C22 - reduction on the carried-forward decoder state               *)
(***************************************************************************)
\* the ticks of a history, in the order received
RECURSIVE Ticks(_)
Ticks(h) == IF h = <<>> THEN <<>> ELSE Head(h).batch \o Ticks(Tail(h))

\* fetch f alone has received messages: one meta message, then batches
\* whose first tick carries the load and the interface arrays
AloneOnFreshStore(f) ==
    /\ \A g \in FetchIds \ {f} : received[g] = <<>>
    /\ MetaThenBatches(received[f])
    /\ Ticks(received[f]) # <<>>
    /\ ~ReduceRaises(decompress_samples(RawTicks[Head(Ticks(received[f]))], EmptyState))

\* the sample stored for the n-th tick (n = 1, 2, ...) of fetch f
SampleOfTick(f, n) ==
    LET slot == SlotOfTime(received[f][1].timestamp + (n - 1) * INTERVAL)
    IN data[slot[1]][slot[2]]

\* the ticks {nice: 10, user: 20, sys: 5, interfaces: [100, 200]} and
\* {user: 25, second interface: 300, everything else omitted}
ExampleTicks == << 2, 3 >>

\* C21: use_cpu is (nice + user + sys) / 1000 / numCpu on the carried-forward
\* decoder state: the ticks {nice: 10, user: 20, sys: 5} and {user: 25} give
\* 0.035 and then 0.040.
C21_UseCpuCarried ==
    \A f \in FetchIds :
        AloneOnFreshStore(f) =>
            LET h == received[f]
                cs == DecodeAll(EmptyState, Ticks(h))
                last == SampleOfTick(f, Len(Ticks(h)))
            IN  /\ IsNumber(cs[1].v) /\ IsNumber(cs[2].v) /\ IsNumber(cs[3].v) =>
                      NormValue("use_cpu", last, scaleSatCPU, scaleUseDisks, scaleUseNetwork)
                          = Rat(cs[1].v + cs[2].v + cs[3].v, 1000 * numCpu)
                /\ Ticks(h) = ExampleTicks /\ numCpu = 1 =>
                      /\ NormValue("use_cpu", SampleOfTick(f, 1), scaleSatCPU, scaleUseDisks, scaleUseNetwork)
                             = Rat(35, 1000)
                      /\ NormValue("use_cpu", SampleOfTick(f, 2), scaleSatCPU, scaleUseDisks, scaleUseNetwork)
                             = Rat(40, 1000)

\* one fetch alone has received the two example ticks
C21_ExampleDecoded ==
    \E f \in FetchIds :
        /\ AloneOnFreshStore(f)
        /\ Ticks(received[f]) = ExampleTicks
        /\ SampleOfTick(f, 2).use_cpu = << 10, 25, 5 >>

\* C22: a partial update of the interface array overwrites only the
\* instances it carries, and use_network is the sum of the per-interface
\* values after the decode: [100, 200] and then [omitted, 300] give 300 and
\* then 400.
C22_UseNetworkPartial ==
    \A f \in FetchIds :
        AloneOnFreshStore(f) =>
            LET h == received[f]
                cs == DecodeAll(EmptyState, Ticks(h))
                tick == RawTicks[Ticks(h)[Len(Ticks(h))]]
                prior == DecodeAll(EmptyState, SubSeq(Ticks(h), 1, Len(Ticks(h)) - 1))
                last == SampleOfTick(f, Len(Ticks(h)))
            IN  /\ last.use_network = SumNumbers(cs[9].inst)
                /\ \A k \in DOMAIN cs[9].inst :
                      IF tick[9].arr /\ k <= Len(tick[9].inst) /\ IsNumber(tick[9].inst[k])
                      THEN cs[9].inst[k] = tick[9].inst[k]
                      ELSE cs[9].inst[k] = InstanceAt(prior[9], k)
                /\ Ticks(h) = ExampleTicks =>
                      /\ SampleOfTick(f, 1).use_network = 300
                      /\ SampleOfTick(f, 2).use_network = 400

\* the partial update has been applied to the interface rates [100, 200]
C22_PartialApplied ==
    \E f \in FetchIds :
        /\ AloneOnFreshStore(f)
        /\ Ticks(received[f]) = ExampleTicks
        /\ fetches[f].status = "open"
        /\ fetches[f].current_sample[9].inst = << 100, 300 >>

(***************************************************************************)
(* C23 - the swap-out categories                                           *)
(***************************************************************************)
\* the category the mapping is to give for swap-out rate r
SwapCategory(r) == IF r = 0 THEN Rat(0, 1) ELSE IF r < 1000 THEN Rat(3, 10) ELSE Rat(1, 1)

\* C23: sat_memory maps a swap-out rate r to 0 when r = 0, to 0.3 when
\* 0 < r < 1000 and to 1 when r >= 1000, for every non-negative r including
\* the boundaries r = 1 and r = 1000.
C23_SwapCategories ==
    ev_rendered =>
        \A i \in DOMAIN ev_data :
            IsNumber(ev_data[i].sat_memory) => NormAt("sat_memory", i) = SwapCategory(ev_data[i].sat_memory)

(***************************************************************************)
(* C24 - the length of a Window                                            *)
(***************************************************************************)
\* the `length` of a sparse array: one more than its highest index
ArrayLength(w) == IF DOMAIN w = {} THEN 0 ELSE 1 + LastOf(DOMAIN w)

\* C24: every Window in the store is a sequence of exactly SAMPLES_PER_H
\* slots, each a sample or null, from its creation and after any writes.
C24_FixedLengthWindows ==
    \A h \in DOMAIN data :
        /\ ArrayLength(data[h]) = SAMPLES_PER_H
        /\ DOMAIN data[h] = 0..(SAMPLES_PER_H - 1)

(***************************************************************************)
(* C25 - no regression of a populated slot to no-data                      *)
(***************************************************************************)
\* the value of a resource in a stored sample is a real value
RealValue(type, sample) ==
    IF type \in {"use_cpu", "use_memory"} THEN sample[type] # <<>>
    ELSE IsNumber(sample[type])

ResourceTypes == { ResourceKeys[k] : k \in DOMAIN ResourceKeys }

\* C25: if a slot holds a sample in which a resource has a real value, then
\* after any later tick applied to that slot by any fetch the resource's
\* value in the slot is still real.
C25_NoRegression ==
    [][\A h \in DOMAIN data : \A i \in DOMAIN data[h] : \A type \in ResourceTypes :
          RealValue(type, data[h][i]) =>
              Populated(data', h, i) /\ RealValue(type, data'[h][i])]_vars

(***************************************************************************)
(* C26 - one record per minute, in ascending order                         *)
(***************************************************************************)
\* the resources that trigger an event within a minute of the window
Triggered(minute) ==
    { type \in ResourceTypes :
          \E i \in SpikeSamples(type, ev_data, scaleSatCPU, scaleUseDisks, scaleUseNetwork) :
              MinuteOf(i) = minute }

\* C26: events of several resources that trigger within the same minute
\* accumulate into a single record for that minute, and the records are
\* emitted in ascending minute order whatever the order of the scan.
C26_MinuteRecords ==
    ev_rendered =>
        /\ \A j, k \in DOMAIN ev_list : j < k => ev_list[j].minute < ev_list[k].minute
        /\ \A k \in DOMAIN ev_list : Range(ev_list[k].types) = Triggered(ev_list[k].minute)
        /\ \A minute \in { MinuteOf(i) : i \in EvSlots } :
              Triggered(minute) # {} => \E k \in DOMAIN ev_list : ev_list[k].minute = minute

\* the scan created the record of a later minute first, and two resources
\* share one record
C26_ScannedOutOfOrder ==
    /\ ev_rendered
    /\ LET created == InsertionOrder(AllPushes(1, ev_data, scaleSatCPU, scaleUseDisks, scaleUseNetwork))
       IN \E j, k \in DOMAIN created : j < k /\ created[j] > created[k]
    /\ \E k \in DOMAIN ev_list : Len(ev_list[k].types) >= 2

(***************************************************************************)
(* C27 - lazily created Windows                                            *)
(***************************************************************************)
\* C27: every Window in the shared store and every Window listed in
\* state.hours has at least one slot that has been written; a meta message
\* or an hour rollover followed by no tick leaves no all-empty Window.
C27_NoEmptyWindow ==
    /\ \A h \in DOMAIN data : DOMAIN data[h] # {}
    /\ \A k \in DOMAIN hours : hours[k] \in DOMAIN data /\ DOMAIN data[hours[k]] # {}

(***************************************************************************)
(* C28 - the cursor stays in range                                         *)
(***************************************************************************)
\* the point in time the cursor of fetch f stands at
CursorTime(f) == fetches[f].current_hour + fetches[f].hour_index * INTERVAL

\* C28: after every meta message and after every processed tick
\* 0 <= hour_index < SAMPLES_PER_H; when the increment reaches SAMPLES_PER_H
\* the cursor is at slot 0 of the Window one MSEC_PER_H later, which exists.
C28_CursorInRange ==
    /\ [](\A f \in FetchIds :
             fetches[f].current_hour # UNDEFINED =>
                 /\ 0 <= fetches[f].hour_index /\ fetches[f].hour_index < SAMPLES_PER_H
                 /\ fetches[f].current_hour % MSEC_PER_H = 0
                 /\ fetches[f].current_hour \in DOMAIN data)
    /\ [][\A f \in FetchIds : \A b \in Batches :
             Delivers(f, b) =>
                 \E n \in 0..Len(b) : Cursor(f)' = SlotOfTime(CursorTime(f) + n * INTERVAL)]_vars

\* a fetch has written the last slot of hour 99 and stands at slot 0 of the next hour
C28_RolledOver ==
    \E f \in FetchIds :
        /\ fetches[f].current_hour = NowHour
        /\ fetches[f].hour_index = 0
        /\ Populated(data, NowHour - MSEC_PER_H, SAMPLES_PER_H - 1)
        /\ NowHour \in DOMAIN data

\* C29: every tick of a batch advances the slot cursor of its fetch by one
\* slot, rolling over at the hour boundary, whether or not its write was
\* accepted: after a batch of n ticks decoded without a raise the cursor is
\* the slot of the time n intervals after the time of the cursor before.
C29_EveryTickAdvances ==
    [][\A f \in FetchIds : \A b \in Batches :
          Delivers(f, b) /\ ~ReduceRaises(fetches[f].current_sample) =>
              Cursor(f)' = SlotOfTime(CursorTime(f) + Len(b) * INTERVAL)]_vars

\* the decoder state of fetch f is the one decoded from every tick the fetch
\* has received, the ticks before its meta messages included
DecodedFromAllTicks(f) ==
    fetches[f].current_sample = DecodeAll(EmptyState, Ticks(received[f]))

\* C30: the decoder state of a fetch persists for the whole subscription: a
\* meta message, the first or a repeated one, changes only the cursor of its
\* fetch and may create the target Window; it leaves current_sample, every
\* written slot, the ceilings and the other fetches unchanged, so the ticks
\* after a later meta message are decoded against the readings before it.
C30_MetaKeepsDecoderState ==
    /\ [][\A f \in FetchIds : \A t \in MetaTimes :
             DeliversMeta(f, t) =>
                 /\ fetches'[f].current_sample = fetches[f].current_sample
                 /\ fetches'[f].current_hour = Floor(t, MSEC_PER_H)
                 /\ fetches'[f].hour_index = (t % MSEC_PER_H) \div INTERVAL
                 /\ \A g \in FetchIds \ {f} : fetches'[g] = fetches[g]
                 /\ DOMAIN data' = DOMAIN data \cup {Floor(t, MSEC_PER_H)}
                 /\ \A h \in DOMAIN data : data'[h] = data[h]
                 /\ PopulatedSlots(data') = PopulatedSlots(data)
                 /\ << scaleSatCPU, scaleUseDisks, scaleUseNetwork >>' =
                        << scaleSatCPU, scaleUseDisks, scaleUseNetwork >>]_vars
    /\ [](\A f \in FetchIds :
             (/\ fetches[f].status = "open"
              /\ Ticks(received[f]) # <<>>
              /\ ~ReduceRaises(decompress_samples(RawTicks[Head(Ticks(received[f]))], EmptyState)))
                 => DecodedFromAllTicks(f))

\* a fetch received {nice: 10, user: 20, sys: 5}, then a second meta message,
\* then {user: 25}: its decoder state still carries nice 10 and sys 5
C30_CarriedAcrossMeta ==
    \E f \in FetchIds :
        /\ fetches[f].status = "open"
        /\ Len(received[f]) = 4
        /\ received[f][1].meta /\ received[f][2].batch = << 2 >>
        /\ received[f][3].meta /\ received[f][4].batch = << 3 >>
        /\ fetches[f].current_sample[1].v = 10
        /\ fetches[f].current_sample[2].v = 25
        /\ fetches[f].current_sample[3].v = 5

\* C31: every key of the shared Window store and every entry of state.hours
\* is an exact multiple of MSEC_PER_H, after any sequence of meta messages,
\* batches and rollovers of any number of fetches.
C31_KeysAligned ==
    /\ \A h \in DOMAIN data : h % MSEC_PER_H = 0
    /\ \A k \in DOMAIN hours : hours[k] % MSEC_PER_H = 0

\* a meta message inside hour 99 and a rollover created two Windows, and
\* both are listed in state.hours
C31_TwoWindowsListed ==
    /\ DOMAIN data = { NowHour - MSEC_PER_H, NowHour }
    /\ hours = << NowHour, NowHour - MSEC_PER_H >>

\* the raw readings of the three resources with a ceiling, over all Windows
StoredRaw(key) == { data[h][i][key] : << h, i >> \in PopulatedSlots(data) }

\* C32: after every message handler each ceiling is at least as large as
\* every raw reading of its resource stored in any Window, for every
\* interleaving of the fetches; hence use_disks and use_network never
\* normalize above 1.
C32_CeilingsCoverStored ==
    /\ \A v \in StoredRaw("sat_cpu") : IsNumber(v) => v <= scaleSatCPU
    /\ \A v \in StoredRaw("use_disks") : IsNumber(v) => v <= scaleUseDisks
    /\ \A v \in StoredRaw("use_network") : IsNumber(v) => v <= scaleUseNetwork
    /\ \A p \in PopulatedSlots(data) : \A type \in { "use_disks", "use_network" } :
          LET v == NormValue(type, data[p[1]][p[2]], scaleSatCPU, scaleUseDisks, scaleUseNetwork)
          IN v.k = "val" => v.n <= v.d

\* readings above all three initial ceilings are stored: a load of 5, a
\* disk rate of 20001 and a network rate of 100001
C32_AboveInitialCeilings ==
    /\ 5 \in StoredRaw("sat_cpu")
    /\ 20001 \in StoredRaw("use_disks")
    /\ 100001 \in StoredRaw("use_network")
    /\ \E v \in StoredRaw("use_disks") : IsNumber(v) /\ v < 20001

\* C33: state.loading is true whenever at least one history fetch has not
\* yet closed, also when a backfill fetch and a live-tail fetch are open at
\* the same time and one of them closes first; so "Load earlier data" is not
\* offered while a backfill is in flight.
C33_LoadingWhileOpen ==
    (\E f \in FetchIds : fetches[f].status = "open") => loading

\* the step is the close handler of fetch f taking its branch without a
\* problem: metricsAvailable is still true, or the timer was set
ClosesWithoutProblem(f) ==
    Closes(f) /\ (metricsAvailable' \/ timers' = timers + 1)

\* C34: every hour listed in state.hours has a Window in the shared store,
\* the Window a fetch is positioned in is among the hours the fetch has
\* recorded, and these are all listed in state.hours once the fetch has
\* closed without a problem.
C34_HoursHaveWindows ==
    /\ [](\A k \in DOMAIN hours : hours[k] \in DOMAIN data)
    /\ [](\A f \in FetchIds :
             fetches[f].current_hour # UNDEFINED =>
                 /\ fetches[f].current_hour \in fetches[f].new_hours
                 /\ fetches[f].new_hours \subseteq DOMAIN data)
    /\ [][\A f \in FetchIds :
             ClosesWithoutProblem(f) => fetches[f].new_hours \subseteq Range(hours')]_vars

\* a fetch wrote into hour 99, rolled over and wrote into hour 100, and
\* after its close both Windows are rendered, the newer one first
C34_BothTouchedListed ==
    /\ \E f \in FetchIds : fetches[f].status = "closed"
    /\ Populated(data, NowHour - MSEC_PER_H, SAMPLES_PER_H - 1)
    /\ Populated(data, NowHour, 0)
    /\ Len(hours) = 2 /\ hours[1] = NowHour

\* C35: within one minute record of a rendered Window each resource key
\* appears at most once, also when the series of the resource meets the
\* slope or threshold condition at several samples of that minute.
C35_UniqueKeysPerMinute ==
    \A r \in DOMAIN ev_list : \A j, k \in DOMAIN ev_list[r].types :
        ev_list[r].types[j] = ev_list[r].types[k] => j = k

\* no earlier slot of the rendered Window holds a value of the resource
FirstValue(type, i) ==
    /\ i \in DOMAIN ev_data
    /\ \A m \in DOMAIN ev_data : m < i => NormAt(type, m).k = "null"

\* C36: event detection never spans Windows: for every resource the first
\* non-null sample of a Window pushes no event, although the previous value
\* is seeded from the raw value of slot 0 and compared with normalized ones.
C36_FirstSampleNoEvent ==
    ev_rendered =>
        \A t \in DOMAIN ResourceKeys : \A i \in DOMAIN ev_data :
            FirstValue(ResourceKeys[t], i) => i \notin ev_pushed[t]

\* slot 0 holds a swap-out rate of 1001 pages/s (normalized 1) and pushes
\* nothing, while the CPU rising from 0.1 to 0.81 pushes at slot 1
C36_HighFirstSample ==
    /\ ev_rendered
    /\ 0 \in DOMAIN ev_data /\ ev_data[0].sat_memory = 1001
    /\ 1 \in DOMAIN ev_data /\ ev_data[1].use_cpu = << 0, 810, 0 >>
    /\ ev_pushed[4] = {}
    /\ ev_pushed[1] = {1}

\* the channels that are open and deliver to onMetricsUpdate
LiveChannels == cm_live \cap cm_listening

\* C37: the current-metrics subscription follows the visibility of the page:
\* at every moment exactly one live channel delivers to onMetricsUpdate while
\* the page is visible and none while it is hidden, also after the source
\* has closed the channel on its own; and a meta message resets this.samples.
C37_ChannelFollowsVisibility ==
    /\ cockpit_hidden => LiveChannels = {}
    /\ ~cockpit_hidden => Cardinality(LiveChannels) = 1
    /\ cm_last = "meta" => cm_samples = EmptySamples

\* the slots whose value of the resource lies more than 0.25 above the value
\* of the sample before them
SlopeQualifies(type) ==
    { i \in DOMAIN ev_data :
        \E j \in DOMAIN ev_data :
            /\ j < i /\ \A m \in DOMAIN ev_data : ~(j < m /\ m < i)
            /\ SlopeRise(ev_data[i][type], ev_data[j][type]) }

\* the number of events of the resource over all minute records
SlopeEventCount(type) ==
    Cardinality({ e \in (DOMAIN ev_events) \X (1..Len(SlopeResourceKeys)) :
                    e[2] \in DOMAIN ev_events[e[1]] /\ ev_events[e[1]][e[2]] = type })

\* C38: in the slope-only detector the scan of a resource stops at its first
\* qualifying sample: each Window yields at most one event per resource, at
\* the minute of the first rise of more than 0.25, and a later rise of the
\* same resource in the same hour yields none.
C38_OneEventPerResource ==
    ev_rendered =>
        \A t \in DOMAIN SlopeResourceKeys :
            LET q == SlopeQualifies(SlopeResourceKeys[t])
            IN /\ SlopeEventCount(SlopeResourceKeys[t]) <= 1
               /\ q = {} => ev_pushed[t] = {} /\ SlopeEventCount(SlopeResourceKeys[t]) = 0
               /\ q # {} =>
                     /\ ev_pushed[t] = { CHOOSE i \in q : \A j \in q : i <= j }
                     /\ SlopeEventCount(SlopeResourceKeys[t]) = 1

\* the CPU rises from 0.1 to 0.45 in minute 0, falls back, and rises to
\* 0.81 in minute 1: only the first rise is an event
C38_SecondRiseSilent ==
    /\ ev_rendered
    /\ DOMAIN ev_data = { 0, 1, 2, SAMPLES_PER_MIN }
    /\ ev_data[0].use_cpu = Rat(100, 1000) /\ ev_data[1].use_cpu = Rat(450, 1000)
    /\ ev_data[2].use_cpu = Rat(100, 1000) /\ ev_data[SAMPLES_PER_MIN].use_cpu = Rat(810, 1000)
    /\ ev_pushed[1] = {1}
    /\ 1 \notin DOMAIN ev_events

====
